---- MODULE Spec2Model ----
(***************************************************************************)
(* Model of the growth_modeling package: the Growth base class (parameter  *)
(* contract, argument resolution, least-squares fit) and its four          *)
(* variants LogisticGrowth, RichardGrowth, ExponentialGeneralizedGrowth    *)
(* and LogisticSigmoidGrowth.                                              *)
(*                                                                         *)
(* One Growth object is modelled.  A Python dict is an insertion-ordered   *)
(* mapping: [keys |-> sequence of distinct keys, val |-> key -> value].    *)
(* Every method is an operator from (self, inputs) to a record holding the *)
(* object after the call, the exception raised ("none" when it returns)    *)
(* and the value returned.  Response values are symbolic terms             *)
(* [law, t, p, y_0]: "law applied at time t with parameters p".            *)
(***************************************************************************)
EXTENDS Integers, Sequences, FiniteSets

\* ---------------------------------------------------------------- bounds
MaxLen == 2          \* longest time sequence handed to compute_y / fit
MaxMutations == 1    \* direct changes to params made by the caller
MaxEvals == 1        \* forward evaluations the optimizer makes in one fit

\* ------------------------------------------------------------- constants
Classes == {"ExponentialGeneralizedGrowth", "LogisticGrowth",
            "LogisticSigmoidGrowth", "RichardGrowth"}

\* params_signature as fixed by each variant's __init__
ExponentialGeneralizedGrowth_params_signature == <<"a", "p">>
LogisticGrowth_params_signature == <<"a", "t_0", "K">>
LogisticSigmoidGrowth_params_signature == <<"a", "c", "K">>
RichardGrowth_params_signature == <<"a", "b", "d", "K">>

Signature(cls) ==
    CASE cls = "ExponentialGeneralizedGrowth" ->
            ExponentialGeneralizedGrowth_params_signature
      [] cls = "LogisticGrowth" -> LogisticGrowth_params_signature
      [] cls = "LogisticSigmoidGrowth" -> LogisticSigmoidGrowth_params_signature
      [] cls = "RichardGrowth" -> RichardGrowth_params_signature

\* the variants whose __init__ creates the y_0 attribute
HasY0(cls) == cls \in {"ExponentialGeneralizedGrowth", "LogisticSigmoidGrowth"}

\* values of the y_0 attribute: the NotImplemented sentinel, a number, or no
\* such attribute (LogisticGrowth, RichardGrowth)
NotImplemented == [is |-> "NotImplemented", v |-> 0]
NoAttribute == [is |-> "NoAttribute", v |-> 0]
Number(v) == [is |-> "number", v |-> v]

Range(s) == {s[i] : i \in 1..Len(s)}
Names == UNION {Range(Signature(c)) : c \in Classes}

\* ------------------------------------------------------------ Python dict
dict_get(d, k) == d.val[k]

dict_set(d, k, v) ==
    IF k \in Range(d.keys)
    THEN [d EXCEPT !.val[k] = v]
    ELSE [keys |-> Append(d.keys, k),
          val  |-> [x \in Range(d.keys) \cup {k} |->
                       IF x = k THEN v ELSE d.val[x]]]

dict_del(d, k) ==
    [keys |-> SelectSeq(d.keys, LAMBDA x : x # k),
     val  |-> [x \in Range(d.keys) \ {k} |-> d.val[x]]]

\* ------------------------------------------------------------ input sets
\* the caller's initial guess for a parameter name
InitialGuess(k) ==
    CASE k = "a" -> 1 [] k = "b" -> 2 [] k = "c" -> 3 [] k = "d" -> 4
      [] k = "K" -> 5 [] k = "p" -> 6 [] k = "t_0" -> 4

MakeDict(ks) == [keys |-> ks, val |-> [k \in Range(ks) |-> InitialGuess(k)]]

Reverse(s) == [i \in 1..Len(s) |-> s[Len(s) + 1 - i]]
Rotate(s) == [i \in 1..Len(s) |-> s[(i % Len(s)) + 1]]
RemoveAt(s, i) == [j \in 1..(Len(s) - 1) |-> IF j < i THEN s[j] ELSE s[j + 1]]

\* a key that is not in the signature
ForeignName(sig) == CHOOSE k \in Names \ Range(sig) : TRUE

\* mappings handed to a constructor: the signature's keys inserted in
\* signature order, in reverse or rotated, as they are, with one key missing, with a
\* foreign key added, or with one key renamed
CtorKeys(sig) ==
    LET orders == {sig, Reverse(sig), Rotate(sig)} IN
    orders
    \cup {RemoveAt(o, i) : o \in orders, i \in 1..Len(sig)}
    \cup {Append(o, ForeignName(sig)) : o \in orders}
    \cup {[o EXCEPT ![i] = ForeignName(sig)] : o \in orders, i \in 1..Len(sig)}

CtorDicts(cls) == {MakeDict(ks) : ks \in CtorKeys(Signature(cls))}

\* bounds as curve_fit takes them: (lower, upper), a scalar for all parameters;
\* the initial guess for p lies outside the second
BoundsChoices == {<<0, 9>>, <<0, 5>>}

\* time sequences: 0, 1, ..., ascending or descending
TimeSeqs ==
    UNION {{[i \in 1..n |-> i - 1], [i \in 1..n |-> n - i]} : n \in 1..MaxLen}

\* explicit overrides: one value too few, the right number, one too many
Overrides(sig) ==
    {[i \in 1..n |-> 8] : n \in (Len(sig) - 1)..(Len(sig) + 1)} \ {<<>>}

\* an initial-guess override for fit: one value per parameter
P0Override(sig) == [i \in 1..Len(sig) |-> 3]

\* points the optimizer may visit or return; all lie inside every bounds choice
FitPoints(n) == {[i \in 1..n |-> i], [i \in 1..n |-> 0]}

\* the keys the caller assigns or deletes directly: the last key of the
\* signature and a foreign one
AssignKeys(sig) ==
    {sig[i] : i \in {Len(sig)} \cap DOMAIN sig} \cup {ForeignName(sig)}
AssignVals == {0}
Y0Vals == {1}

\* ------------------------------------------------------------- the object
VARIABLES
    pc,         \* "new", "no_instance", "idle", "curve_fit"
    growth,     \* the Growth object: cls, params_signature, params, bounds, y_0
    frame,      \* locals of a running fit
    mutations,  \* direct assignments made so far
    last        \* the last call: its inputs and what it raised or returned

vars == <<pc, growth, frame, mutations, last>>

NoObject == [cls |-> "none", params_signature |-> <<>>,
             params |-> [keys |-> <<>>, val |-> <<>>],
             bounds |-> <<>>, y_0 |-> NoAttribute]

NoFrame == [t |-> <<>>, p0 |-> <<>>, start |-> <<>>,
            pre |-> [keys |-> <<>>, val |-> <<>>], evals |-> 0]

NoLast == [op |-> "none", cls |-> "none", t |-> <<>>, args |-> <<>>, raised |-> "none",
           value |-> <<>>, resolved |-> <<>>, trace |-> <<>>,
           y_0 |-> NoAttribute, ivp |-> "none", keys |-> {},
           popt |-> <<>>, p0 |-> <<>>,
           pre |-> [keys |-> <<>>, val |-> <<>>]]

\* ---------------------------------------------------------------- Growth
\* (a variant of _check_params that only requires the signature's keys)
_check_params_superset(self) ==
    Range(self.params_signature) \subseteq Range(self.params.keys)

\* Growth._check_params: TRUE when the assertion passes
_check_params(self) ==
    Range(self.params.keys) = Range(self.params_signature)

\* the generator (self.params[k] for k in self.params_signature), consumed
\* by the caller's unpacking or tuple(); a missing key raises KeyError
RECURSIVE StoredInSignatureOrder(_, _)
StoredInSignatureOrder(self, i) ==
    IF i > Len(self.params_signature)
    THEN [raised |-> "none", val |-> <<>>]
    ELSE IF self.params_signature[i] \notin Range(self.params.keys)
    THEN [raised |-> "KeyError", val |-> <<>>]
    ELSE LET rest == StoredInSignatureOrder(self, i + 1) IN
         IF rest.raised # "none" THEN rest
         ELSE [raised |-> "none",
               val |-> <<dict_get(self.params, self.params_signature[i])>>
                       \o rest.val]

\* (a variant of _get_compute_parameters that completes a short override
\* with the stored values)
_get_compute_parameters_partial(self, args) ==
    IF Len(args) > 0
    THEN IF Len(args) <= Len(self.params_signature) /\ _check_params(self)
         THEN [raised |-> "none",
               val |-> [i \in 1..Len(self.params_signature) |->
                          IF i <= Len(args) THEN args[i]
                          ELSE dict_get(self.params, self.params_signature[i])]]
         ELSE [raised |-> "argument_count", val |-> <<>>]
    ELSE IF _check_params(self)
         THEN StoredInSignatureOrder(self, 1)
         ELSE [raised |-> "signature_mismatch", val |-> <<>>]

\* (a variant of _get_compute_parameters that does not re-validate the keys)
_get_compute_parameters_unchecked(self, args) ==
    IF Len(args) > 0
    THEN IF Len(args) = Len(self.params_signature)
         THEN [raised |-> "none", val |-> args]
         ELSE [raised |-> "argument_count", val |-> <<>>]
    ELSE StoredInSignatureOrder(self, 1)

\* Growth._get_compute_parameters; the two assertions are told apart by name
_get_compute_parameters(self, args) ==
    IF Len(args) > 0
    THEN IF Len(args) = Len(self.params_signature)
         THEN [raised |-> "none", val |-> args]
         ELSE [raised |-> "argument_count", val |-> <<>>]
    ELSE IF _check_params(self)
         THEN StoredInSignatureOrder(self, 1)
         ELSE [raised |-> "signature_mismatch", val |-> <<>>]

\* Growth.__init__(params, bounds)
Growth__init__(cls, params, bounds) ==
    [cls |-> cls, params_signature |-> <<>>, params |-> params,
     bounds |-> bounds, y_0 |-> NoAttribute]

Constructed(self) == [self |-> self, raised |-> "none"]
CtorRaised == [self |-> NoObject, raised |-> "signature_mismatch"]

\* LogisticGrowth.__init__(params, bounds)
LogisticGrowth__init__(params, bounds) ==
    LET self == [Growth__init__("LogisticGrowth", params, bounds)
                   EXCEPT !.params_signature = LogisticGrowth_params_signature]
    IN IF _check_params(self) THEN Constructed(self) ELSE CtorRaised

\* RichardGrowth.__init__(params, bounds)
RichardGrowth__init__(params, bounds) ==
    LET self == [Growth__init__("RichardGrowth", params, bounds)
                   EXCEPT !.params_signature = RichardGrowth_params_signature]
    IN IF _check_params(self) THEN Constructed(self) ELSE CtorRaised

\* ExponentialGeneralizedGrowth.__init__(params, bounds)
ExponentialGeneralizedGrowth__init__(params, bounds) ==
    LET self == [Growth__init__("ExponentialGeneralizedGrowth", params, bounds)
                   EXCEPT !.params_signature =
                            ExponentialGeneralizedGrowth_params_signature]
    IN IF _check_params(self)
       THEN Constructed([self EXCEPT !.y_0 = NotImplemented])
       ELSE CtorRaised

\* LogisticSigmoidGrowth.__init__(params, bounds)
LogisticSigmoidGrowth__init__(params, bounds) ==
    LET self == [Growth__init__("LogisticSigmoidGrowth", params, bounds)
                   EXCEPT !.params_signature =
                            LogisticSigmoidGrowth_params_signature]
    IN IF _check_params(self)
       THEN Constructed([self EXCEPT !.y_0 = NotImplemented])
       ELSE CtorRaised

\* cls(params, bounds)
__init__(cls, params, bounds) ==
    CASE cls = "LogisticGrowth" -> LogisticGrowth__init__(params, bounds)
      [] cls = "RichardGrowth" -> RichardGrowth__init__(params, bounds)
      [] cls = "ExponentialGeneralizedGrowth" ->
            ExponentialGeneralizedGrowth__init__(params, bounds)
      [] cls = "LogisticSigmoidGrowth" ->
            LogisticSigmoidGrowth__init__(params, bounds)

\* ------------------------------------------------------ forward evaluation
Term(law, ti, p, y0) == [law |-> law, t |-> ti, p |-> p, y_0 |-> y0]

Formula(law, t, p, y0) == [i \in 1..Len(t) |-> Term(law, t[i], p, y0)]

Max(s) == CHOOSE m \in Range(s) : \A x \in Range(s) : x <= m

\* scipy.integrate.solve_ivp(dydt, (0, max(t)), [y_0], t_eval=t) as called by
\* LogisticSigmoidGrowth.compute_y.  It raises ValueError when t_eval is not
\* strictly increasing over a non-empty span.  Otherwise it returns a result
\* object whose y holds one value per evaluation point reached: all of them
\* when the span was completed (status 0; always so for an empty span), a
\* proper prefix when a step failed (status -1, success False).  When no
\* point was reached there is no array to return and the call ends in an
\* exception.  ivp is what the integration does.
solve_ivp(t, y0, p, ivp) ==
    IF Max(t) > 0 /\ \E i \in 1..(Len(t) - 1) : t[i + 1] <= t[i]
    THEN [raised |-> "ValueError", status |-> "raised", y |-> <<>>]
    ELSE IF ivp.status = "finished" \/ Max(t) = 0
    THEN [raised |-> "none", status |-> "finished",
          y |-> Formula("logistic_sigmoid", t, p, y0)]
    ELSE IF ivp.reached = 0
    THEN [raised |-> "integration_error", status |-> "raised", y |-> <<>>]
    ELSE [raised |-> "none", status |-> "failed",
          y |-> SubSeq(Formula("logistic_sigmoid", t, p, y0), 1, ivp.reached)]

\* what an integration can do; only LogisticSigmoidGrowth integrates
IvpChoices(cls, t) ==
    IF cls = "LogisticSigmoidGrowth"
    THEN {[status |-> "finished", reached |-> Len(t)]}
         \cup {[status |-> "failed", reached |-> k] : k \in 0..(Len(t) - 1)}
    ELSE {[status |-> "none", reached |-> 0]}

Result(self, raised, value, resolved, trace, ivp) ==
    [self |-> self, raised |-> raised, value |-> value,
     resolved |-> resolved, trace |-> trace, ivp |-> ivp]

\* (a variant of LogisticGrowth.compute_y that keeps an explicit override as
\* the new params)
LogisticGrowth_compute_y_storing(self, t, args, ivp) ==
    LET r == _get_compute_parameters(self, args) IN
    IF r.raised # "none"
    THEN Result(self, r.raised, <<>>, <<>>, <<"resolve">>, "none")
    ELSE Result(IF Len(args) > 0 /\ _check_params(self)
                THEN [self EXCEPT !.params.val =
                        [k \in Range(self.params.keys) |->
                            LET i == CHOOSE j \in 1..Len(self.params_signature) :
                                         self.params_signature[j] = k
                            IN r.val[i]]]
                ELSE self,
                "none", Formula("logistic", t, r.val, self.y_0), r.val,
                <<"resolve", "formula">>, "none")

\* LogisticGrowth.compute_y: K / (1 + exp(-a * (t - t_0)))
LogisticGrowth_compute_y(self, t, args, ivp) ==
    LET r == _get_compute_parameters(self, args) IN
    IF r.raised # "none"
    THEN Result(self, r.raised, <<>>, <<>>, <<"resolve">>, "none")
    ELSE Result(self, "none", Formula("logistic", t, r.val, self.y_0), r.val,
                <<"resolve", "formula">>, "none")

\* RichardGrowth.compute_y: K * (1 + exp(d - a * b * t)) ** (-1 / b)
RichardGrowth_compute_y(self, t, args, ivp) ==
    LET r == _get_compute_parameters(self, args) IN
    IF r.raised # "none"
    THEN Result(self, r.raised, <<>>, <<>>, <<"resolve">>, "none")
    ELSE Result(self, "none", Formula("richards", t, r.val, self.y_0), r.val,
                <<"resolve", "formula">>, "none")

\* (a variant of ExponentialGeneralizedGrowth.compute_y that resolves the
\* parameters before it looks at y_0)
ExponentialGeneralizedGrowth_compute_y_resolve_first(self, t, args, ivp) ==
    LET r == _get_compute_parameters(self, args) IN
    IF r.raised # "none"
    THEN Result(self, r.raised, <<>>, <<>>, <<"resolve">>, "none")
    ELSE IF self.y_0 = NotImplemented
    THEN Result(self, "unset_y_0", <<>>, <<>>, <<"resolve", "check_y_0">>, "none")
    ELSE Result(self, "none",
                Formula("generalized_exponential", t, r.val, self.y_0), r.val,
                <<"resolve", "check_y_0", "formula">>, "none")

\* ExponentialGeneralizedGrowth.compute_y:
\*   ((1 - p) * a * t + (1 / y_0) ** (p - 1)) ** (-1 / (p - 1))
ExponentialGeneralizedGrowth_compute_y(self, t, args, ivp) ==
    IF self.y_0 = NotImplemented
    THEN Result(self, "unset_y_0", <<>>, <<>>, <<"check_y_0">>, "none")
    ELSE LET r == _get_compute_parameters(self, args) IN
         IF r.raised # "none"
         THEN Result(self, r.raised, <<>>, <<>>, <<"check_y_0", "resolve">>,
                     "none")
         ELSE Result(self, "none",
                     Formula("generalized_exponential", t, r.val, self.y_0),
                     r.val, <<"check_y_0", "resolve", "formula">>, "none")

\* LogisticSigmoidGrowth.compute_y: returns out.y.flatten() whatever the
\* status of the integration
LogisticSigmoidGrowth_compute_y(self, t, args, ivp) ==
    IF self.y_0 = NotImplemented
    THEN Result(self, "unset_y_0", <<>>, <<>>, <<"check_y_0">>, "none")
    ELSE LET r == _get_compute_parameters(self, args) IN
         IF r.raised # "none"
         THEN Result(self, r.raised, <<>>, <<>>, <<"check_y_0", "resolve">>,
                     "none")
         ELSE LET out == solve_ivp(t, self.y_0, r.val, ivp) IN
              Result(self, out.raised, out.y, r.val,
                     <<"check_y_0", "resolve", "solve_ivp">>, out.status)

\* self.compute_y(t, *args): the variant's override of Growth.compute_y
compute_y(self, t, args, ivp) ==
    CASE self.cls = "LogisticGrowth" ->
            LogisticGrowth_compute_y(self, t, args, ivp)
      [] self.cls = "RichardGrowth" ->
            RichardGrowth_compute_y(self, t, args, ivp)
      [] self.cls = "ExponentialGeneralizedGrowth" ->
            ExponentialGeneralizedGrowth_compute_y(self, t, args, ivp)
      [] self.cls = "LogisticSigmoidGrowth" ->
            LogisticSigmoidGrowth_compute_y(self, t, args, ivp)

\* ---------------------------------------------------------------- actions
Init ==
    /\ pc = "new"
    /\ growth = NoObject
    /\ frame = NoFrame
    /\ mutations = 0
    /\ last = NoLast

Construct(cls, params, bounds) ==
    /\ pc = "new"
    /\ LET r == __init__(cls, params, bounds) IN
       /\ growth' = r.self
       /\ pc' = IF r.raised = "none" THEN "idle" ELSE "no_instance"
       /\ last' = [NoLast EXCEPT !.op = "__init__", !.raised = r.raised,
                                 !.keys = Range(params.keys),
                                 !.cls = cls]
    /\ UNCHANGED <<frame, mutations>>

ComputeY(t, args, ivp) ==
    /\ pc = "idle"
    /\ LET r == compute_y(growth, t, args, ivp) IN
       /\ growth' = r.self
       /\ last' = [NoLast EXCEPT !.op = "compute_y", !.t = t, !.args = args,
                                 !.raised = r.raised, !.value = r.value,
                                 !.resolved = r.resolved, !.trace = r.trace,
                                 !.y_0 = growth.y_0, !.ivp = r.ivp,
                                 !.pre = growth.params]
    /\ UNCHANGED <<pc, frame, mutations>>

\* ------------------------------------------------------------------- fit
\* curve_fit's entry check of the starting point against bounds=(lower, upper)
Feasible(x, bounds) == \A i \in 1..Len(x) : bounds[1] <= x[i] /\ x[i] <= bounds[2]

\* the store loop of fit:
\*   for i, key in enumerate(self.params.keys()): self.params[key] = fit_params[i]
RECURSIVE StoreFitted(_, _, _)
StoreFitted(params, fit_params, i) ==
    IF i > Len(params.keys) THEN [params |-> params, raised |-> "none"]
    ELSE IF i > Len(fit_params) THEN [params |-> params, raised |-> "IndexError"]
    ELSE StoreFitted(dict_set(params, params.keys[i], fit_params[i]),
                     fit_params, i + 1)

\* (a variant of fit_store that stores whatever point curve_fit ended at)
fit_store_always(self, cf) ==
    LET st == StoreFitted(self.params, cf.popt, 1) IN
    [self |-> [self EXCEPT !.params = st.params],
     raised |-> IF cf.raised # "none" THEN cf.raised ELSE st.raised]

\* what fit does once curve_fit is over: cf.raised is the exception curve_fit
\* raised ("none" when it returned cf.popt)
fit_store(self, cf) ==
    IF cf.raised # "none"
    THEN [self |-> self, raised |-> cf.raised]
    ELSE LET st == StoreFitted(self.params, cf.popt, 1) IN
         [self |-> [self EXCEPT !.params = st.params], raised |-> st.raised]

\* the starting point fit hands to curve_fit:
\*   p0=tuple(self._get_compute_parameters())
fit_p0(self, p0) == _get_compute_parameters(self, <<>>)

FitLast(t, p0, raised, pre) ==
    [NoLast EXCEPT !.op = "fit", !.t = t, !.p0 = p0, !.raised = raised,
                   !.pre = pre]

\* fit(t, y, p0) up to curve_fit's first forward evaluation
FitCall(t, y, p0) ==
    /\ pc = "idle"
    /\ Len(y) = Len(t)
    /\ LET r == fit_p0(growth, p0) IN
       IF r.raised # "none"
       THEN /\ last' = FitLast(t, p0, r.raised, growth.params)
            /\ UNCHANGED <<pc, frame>>
       ELSE IF ~Feasible(r.val, growth.bounds)
       THEN /\ last' = FitLast(t, p0, "infeasible", growth.params)
            /\ UNCHANGED <<pc, frame>>
       ELSE /\ pc' = "curve_fit"
            /\ frame' = [t |-> t, p0 |-> p0, start |-> r.val,
                         pre |-> growth.params, evals |-> 0]
            /\ last' = [NoLast EXCEPT !.op = "fit_call", !.t = t, !.p0 = p0,
                                      !.resolved = r.val, !.pre = growth.params]
    /\ UNCHANGED <<growth, mutations>>

\* curve_fit evaluates self.compute_y(t, *x); an exception, or a result that
\* does not match the data's length, ends the fit with an error
CurveFitEval(x, ivp) ==
    /\ pc = "curve_fit"
    /\ frame.evals < MaxEvals
    /\ LET r == compute_y(growth, frame.t, x, ivp) IN
       /\ growth' = r.self
       /\ IF r.raised # "none" \/ Len(r.value) # Len(frame.t)
          THEN /\ pc' = "idle"
               /\ frame' = NoFrame
               /\ last' = [FitLast(frame.t, frame.p0,
                                   IF r.raised # "none" THEN r.raised
                                   ELSE "shape_mismatch", frame.pre)
                              EXCEPT !.trace = r.trace, !.y_0 = growth.y_0,
                                     !.ivp = r.ivp]
          ELSE /\ pc' = "curve_fit"
               /\ frame' = [frame EXCEPT !.evals = @ + 1]
               /\ last' = [NoLast EXCEPT !.op = "curve_fit_eval", !.t = frame.t,
                                         !.args = x, !.value = r.value,
                                         !.resolved = r.resolved,
                                         !.trace = r.trace, !.y_0 = growth.y_0,
                                         !.ivp = r.ivp, !.pre = frame.pre,
                                         !.p0 = frame.p0]
    /\ UNCHANGED mutations

\* curve_fit is over: it returned popt or raised; fit stores or propagates
CurveFitReturn(cf) ==
    /\ pc = "curve_fit"
    /\ frame.evals >= 1
    /\ LET r == fit_store(growth, cf) IN
       /\ growth' = r.self
       /\ last' = [FitLast(frame.t, frame.p0, r.raised, frame.pre)
                      EXCEPT !.popt = cf.popt, !.resolved = frame.start]
    /\ pc' = "idle"
    /\ frame' = NoFrame
    /\ UNCHANGED mutations

CurveFitOutcomes(n) ==
    {[raised |-> e, popt |-> x] : e \in {"none", "not_converged"},
                                 x \in FitPoints(n)}

\* ------------------------------------------------------------- the caller
\* growth.params[k] = v
AssignParam(k, v) ==
    /\ pc = "idle"
    /\ mutations < MaxMutations
    /\ growth' = [growth EXCEPT !.params = dict_set(@, k, v)]
    /\ mutations' = mutations + 1
    /\ last' = [NoLast EXCEPT !.op = "assign"]
    /\ UNCHANGED <<pc, frame>>

\* del growth.params[k]
DeleteParam(k) ==
    /\ pc = "idle"
    /\ mutations < MaxMutations
    /\ k \in Range(growth.params.keys)
    /\ growth' = [growth EXCEPT !.params = dict_del(@, k)]
    /\ mutations' = mutations + 1
    /\ last' = [NoLast EXCEPT !.op = "assign"]
    /\ UNCHANGED <<pc, frame>>

\* growth.y_0 = v
SetY0(v) ==
    /\ pc = "idle"
    /\ HasY0(growth.cls)
    /\ growth.y_0 = NotImplemented
    /\ growth' = [growth EXCEPT !.y_0 = Number(v)]
    /\ last' = [NoLast EXCEPT !.op = "assign"]
    /\ UNCHANGED <<pc, frame, mutations>>

Next ==
    \/ \E cls \in Classes : \E params \in CtorDicts(cls) :
         \E bounds \in BoundsChoices : Construct(cls, params, bounds)
    \/ \E t \in TimeSeqs :
         \E args \in {<<>>} \cup Overrides(growth.params_signature) :
         \E ivp \in IvpChoices(growth.cls, t) : ComputeY(t, args, ivp)
    \/ \E t \in TimeSeqs : \E y \in {[i \in 1..Len(t) |-> 0]} :
         \E p0 \in {<<>>, P0Override(growth.params_signature)} :
         FitCall(t, y, p0)
    \/ \E x \in {frame.start} \cup FitPoints(Len(frame.start)) :
         \E ivp \in IvpChoices(growth.cls, frame.t) : CurveFitEval(x, ivp)
    \/ \E cf \in CurveFitOutcomes(Len(frame.start)) : CurveFitReturn(cf)
    \/ \E k \in AssignKeys(growth.params_signature) : \E v \in AssignVals :
         AssignParam(k, v)
    \/ \E k \in AssignKeys(growth.params_signature) : DeleteParam(k)
    \/ \E v \in Y0Vals : SetY0(v)

Spec == Init /\ [][Next]_vars

\* ----------------------------------------------------------------- claims
sig == growth.params_signature
KeySet(d) == Range(d.keys)
InSignatureOrder(d) == [i \in 1..Len(sig) |-> d.val[sig[i]]]

\* C1: after a successful fit, params[params_signature[i]] is the i-th value
\* the optimizer returned, whatever the insertion order of params.
C1_FittedInSignatureOrder ==
    (last.op = "fit" /\ last.raised = "none") =>
        \A i \in 1..Len(sig) : growth.params.val[sig[i]] = last.popt[i]

\* C2: a fit that fails, for whatever reason, raises and leaves params
\* exactly as it was before the call.
C2_FailedFitKeepsParams ==
    (last.op = "fit" /\ last.raised # "none") => growth.params = last.pre

C2_Witness ==
    /\ last.op = "fit"
    /\ last.raised = "not_converged"
    /\ last.popt # InSignatureOrder(growth.params)

\* C3: the optimizer starts from the stored parameters in signature order
\* when fit gets no p0, and from p0 when it gets one.
C3_StartsFromOverride ==
    pc = "curve_fit" =>
        frame.start = IF frame.p0 = <<>> THEN InSignatureOrder(frame.pre)
                      ELSE frame.p0

\* C4: constructing any variant with a mapping whose key set differs from the
\* variant's signature raises the signature mismatch and yields no instance.
C4_CtorRejectsMismatch ==
    (last.op = "__init__" /\ last.keys # Range(Signature(last.cls))) =>
        /\ last.raised = "signature_mismatch"
        /\ pc = "no_instance"
        /\ growth = NoObject

C4_Witness ==
    /\ last.op = "__init__"
    /\ last.cls = "RichardGrowth"
    /\ Range(Signature(last.cls)) \subseteq last.keys
    /\ last.keys # Range(Signature(last.cls))
    /\ last.raised = "signature_mismatch"

WrongCount(args) == Len(args) > 0 /\ Len(args) # Len(sig)

\* C5 as stated: compute_y with an explicit override of the wrong length
\* fails with the argument-count error, on every variant.
C5_WrongCountIsArgumentCount ==
    (last.op = "compute_y" /\ WrongCount(last.args)) =>
        last.raised = "argument_count"

\* C5 as amended: compute_y with an explicit override of the wrong length
\* always fails and resolves nothing: with the unset-y_0 error when the
\* variant has a y_0 that is still unset, with the argument-count error
\* otherwise.  An override that is accepted is used as it is.
C5_WrongCountFails ==
    /\ (last.op = "compute_y" /\ WrongCount(last.args)) =>
          /\ last.raised = IF last.y_0 = NotImplemented THEN "unset_y_0"
                           ELSE "argument_count"
          /\ last.value = <<>>
          /\ last.resolved = <<>>
    /\ (last.op = "compute_y" /\ Len(last.args) > 0 /\ last.resolved # <<>>) =>
          last.resolved = last.args

C5_Witness ==
    /\ last.op = "compute_y"
    /\ Len(last.args) = Len(sig) - 1
    /\ Len(last.args) > 0
    /\ last.raised = "argument_count"

\* C6: on the variants with a y_0, compute_y called while y_0 is unset raises
\* the unset-y_0 error before it resolves parameters, integrates or
\* evaluates; with y_0 set that error is never raised.
C6_UnsetY0First ==
    last.op \in {"compute_y", "curve_fit_eval"} =>
        /\ (HasY0(growth.cls) /\ last.y_0 = NotImplemented) =>
              /\ last.raised = "unset_y_0"
              /\ last.trace = <<"check_y_0">>
              /\ last.value = <<>>
        /\ last.raised = "unset_y_0" =>
              (HasY0(growth.cls) /\ last.y_0 = NotImplemented)

C6_Witness ==
    /\ last.op = "compute_y"
    /\ last.raised = "unset_y_0"
    /\ last.args = <<>>
    /\ KeySet(growth.params) # Range(sig)

\* C7: when the integration fails, LogisticSigmoidGrowth.compute_y raises;
\* when it returns, it returns one value per time point, in the order of t.
C7_IntegrationFailureRaises ==
    (last.op = "compute_y" /\ growth.cls = "LogisticSigmoidGrowth") =>
        /\ last.ivp = "failed" => last.raised # "none"
        /\ last.raised = "none" =>
              /\ Len(last.value) = Len(last.t)
              /\ \A i \in 1..Len(last.t) : last.value[i].t = last.t[i]

Mismatch(d) == KeySet(d) # Range(sig)

\* C9 as stated: a compute_y without explicit parameters, and a fit, raise
\* the signature mismatch when the keys of params no longer match the
\* signature, and otherwise resolve to the stored values in signature order.
C9_DefaultRevalidates ==
    /\ (last.op = "compute_y" /\ last.args = <<>>) =>
          IF Mismatch(last.pre) THEN last.raised = "signature_mismatch"
          ELSE last.resolved = InSignatureOrder(last.pre)
    /\ (last.op = "fit" /\ Mismatch(last.pre)) =>
          last.raised = "signature_mismatch"
    /\ last.op = "fit_call" =>
          ~Mismatch(last.pre) /\ last.resolved = InSignatureOrder(last.pre)

\* C9 as amended: the same, except that compute_y on a variant whose y_0 is
\* still unset raises the unset-y_0 error before it looks at params.
C9_DefaultRevalidatesAfterY0 ==
    /\ (last.op = "compute_y" /\ last.args = <<>>) =>
          IF last.y_0 = NotImplemented
          THEN last.raised = "unset_y_0" /\ last.resolved = <<>>
          ELSE IF Mismatch(last.pre)
          THEN last.raised = "signature_mismatch" /\ last.value = <<>>
          ELSE last.resolved = InSignatureOrder(last.pre)
    /\ (last.op = "fit" /\ Mismatch(last.pre)) =>
          last.raised = "signature_mismatch"
    /\ last.op = "fit_call" =>
          ~Mismatch(last.pre) /\ last.resolved = InSignatureOrder(last.pre)

C9_Witness ==
    /\ last.op = "compute_y"
    /\ last.args = <<>>
    /\ Mismatch(last.pre)
    /\ last.raised = "signature_mismatch"

\* C10: a compute_y call, made by the caller or by the optimizer during a fit,
\* with or without an override, returning or raising, leaves params,
\* params_signature and bounds as they were; while curve_fit runs, params is
\* what it was when fit was called.
C10_ComputeYChangesNothing ==
    [][/\ last'.op \in {"compute_y", "curve_fit_eval"} =>
            /\ growth'.params = growth.params
            /\ growth'.params_signature = growth.params_signature
            /\ growth'.bounds = growth.bounds
       /\ pc' = "curve_fit" => growth'.params = frame'.pre]_vars

C10_Witness ==
    /\ last.op = "compute_y"
    /\ Len(last.args) > 0
    /\ last.raised = "none"
====
